---- MODULE Spec2Model ----
(***************************************************************************)
(* Model of the chat server of mcp-elpris                                  *)
(* (src/chat-server/src/index.ts, lines 1-227): the POST /chat handler,    *)
(* generateWithRetry and callMcpGetPrices.  A string is a sequence of      *)
(* one-character strings; an error message is a sequence of tokens.        *)
(***************************************************************************)
EXTENDS Integers, Sequences, FiniteSets, TLC

\* ------------------------------------------------------------------------
\* Bounds of the model checking (not program constants)
\* ------------------------------------------------------------------------
\* most candidates in one model response
MaxCands == 2
\* most content parts in one model response, over all its candidates
MaxParts == 2

\* ------------------------------------------------------------------------
\* Program constants
\* ------------------------------------------------------------------------
PRIMARY_MODEL == "gemini-1.5-flash"
FALLBACK_MODEL == "gemini-1.5-flash-8b"
\* a policy with one more delay
backoff_five == <<500, 1000, 2000, 4000, 8000>>

backoff == <<500, 1000, 2000, 4000>>
ToolName == "get_el_price"
NoReply == <<"(", "i", "n", "g", "e", "t", " ", "s", "v", "a", "r", ")">>
NL == <<"\n">>
MalformedMsg == <<"Ovantat MCP-svar (saknar content[0].text)">>

\* no response object, no conversation, no error
None == [none |-> TRUE]
NoContents == <<>>
NoError == <<>>

\* ------------------------------------------------------------------------
\* Inputs: what the collaborators can hand to the server
\* ------------------------------------------------------------------------
\* request bodies
Bodies == { [message |-> <<"h", "i">>] }

\* the areas of the tool's parameters (line 88)
Areas == <<"SE1", "SE2", "SE3", "SE4">>
\* the object {}
EmptyArgs == [empty |-> TRUE]
\* a get_el_price call for the n-th area, so that the calls of one response
\* differ
CallPrice(n) ==
  [functionCall |->
     [name |-> ToolName, args |-> [area |-> Areas[((n - 1) % Len(Areas)) + 1]]]]
CallOther == [functionCall |-> [name |-> "get_weather"]]

\* A response of model.generateContent: candidates with content parts.  Its
\* shape says which kind each part is; the n-th part of the response, when a
\* text part, carries the n-th letter, so that the texts of one response
\* differ.
Kinds == {"text", "price", "other"}
Alphabet == <<"a", "b", "c", "d", "e", "f">>
KindSeqs == UNION { [1..k -> Kinds] : k \in 0..MaxParts }

RECURSIVE TotalParts(_)
TotalParts(sh) ==
  IF sh = <<>> THEN 0 ELSE Len(Head(sh)) + TotalParts(Tail(sh))

Shapes ==
  { sh \in UNION { [1..k -> KindSeqs] : k \in 0..MaxCands } :
      TotalParts(sh) <= MaxParts }

PartAt(kind, n) ==
  IF kind = "text" THEN [text |-> <<Alphabet[((n - 1) % Len(Alphabet)) + 1]>>]
  ELSE IF kind = "price" THEN CallPrice(n)
  ELSE CallOther

CandAt(sh, c) ==
  [content |->
     [parts |-> [i \in 1..Len(sh[c]) |->
                   PartAt(sh[c][i], TotalParts(SubSeq(sh, 1, c - 1)) + i)]]]

ResponseOf(sh) == [candidates |-> [c \in 1..Len(sh) |-> CandAt(sh, c)]]

ShapedResponses == { ResponseOf(sh) : sh \in Shapes }

\* responses with a text part whose text is the empty string
EmptyTextResponses ==
  { [candidates |-> <<[content |-> [parts |-> <<[text |-> <<>>]>>]]>>],
    [candidates |->
       <<[content |-> [parts |-> <<[text |-> <<>>], [text |-> <<"b">>]>>]]>>] }

Responses == ShapedResponses \cup EmptyTextResponses

\* errors of model.generateContent; Transient says which of them signal an
\* upstream overload or rate limit
Transient(err) ==
  \E tok \in {"503", "429", "overloaded"} : \E i \in 1..Len(err) : err[i] = tok
Thrown(err) == IF Transient(err) THEN "exhausted" ELSE "fatal"
Failed(err) == IF Transient(err) THEN "fail" ELSE "fatal"

Err503 == <<"[503 Service Unavailable]", "503", "unavailable">>
Err429 == <<"quota", "429">>
ErrOverloaded == <<"The model is", "overloaded">>
Err400 == <<"[400 Bad Request]", "400", "API key not valid">>
GenErrors == {Err503, Err429, ErrOverloaded, Err400}

\* the payload of the price tool for the k-th tool call of a request, and
\* the replies of client.callTool to it
Payload(k) == <<"prices", k>>
Stringify(p) == <<"{", p, "}">>
ToolReplies(k) ==
  { [content |-> <<[type |-> "text", text |-> Stringify(Payload(k))]>>],
    [content |-> <<[type |-> "text", text |-> <<>>]>>],
    [content |-> <<[type |-> "text", text |-> <<"o", "o", "p", "s">>]>>],
    [content |-> <<>>],
    [isError |-> TRUE] }
ErrConnect == <<"fetch failed">>
ErrCallTool == <<"MCP error -32603">>
ErrClose == <<"close failed">>
ErrSyntax == <<"SyntaxError: Unexpected token">>

\* ------------------------------------------------------------------------
\* Pure helpers
\* ------------------------------------------------------------------------
Has(rec, f) == f \in DOMAIN rec

\* String.prototype.includes on a message
Includes(msg, tok) == \E i \in DOMAIN msg : msg[i] = tok

\* lines 63-67
retriable(msg) ==
  Includes(msg, "503") \/ Includes(msg, "429") \/ Includes(msg, "overloaded")

\* Array.prototype.join
RECURSIVE Join(_, _)
Join(ss, sep) ==
  IF ss = <<>> THEN <<>>
  ELSE IF Len(ss) = 1 THEN ss[1]
  ELSE ss[1] \o sep \o Join(Tail(ss), sep)

\* parts.map(p => p?.text).filter(Boolean)
RECURSIVE TextsOf(_)
TextsOf(ps) ==
  IF ps = <<>> THEN <<>>
  ELSE (IF Has(Head(ps), "text") /\ Head(ps).text # <<>>
          THEN <<Head(ps).text>> ELSE <<>>) \o TextsOf(Tail(ps))

\* cands.flatMap(cand => texts of cand)
RECURSIVE FlatTexts(_)
FlatTexts(cs) ==
  IF cs = <<>> THEN <<>>
  ELSE TextsOf(Head(cs).content.parts) \o FlatTexts(Tail(cs))

\* a reply taken from the first candidate that has text (as extractText does)
RECURSIVE FirstText(_)
FirstText(cs) ==
  IF cs = <<>> THEN NoReply
  ELSE IF TextsOf(Head(cs).content.parts) # <<>>
    THEN Join(TextsOf(Head(cs).content.parts), NL)
    ELSE FirstText(Tail(cs))
ReplyText_firstCandidate(resp) == FirstText(resp.candidates)

\* a reply without the placeholder
ReplyText_noPlaceholder(resp) == Join(FlatTexts(resp.candidates), NL)

\* lines 200-207 and 211-216: flatMap(...).join("\n") || "(inget svar)"
ReplyText(resp) ==
  LET joined == Join(FlatTexts(resp.candidates), NL)
  IN IF joined = <<>> THEN NoReply ELSE joined

\* a collection that takes the parts of a candidate from the last to the first
RECURSIVE CallsOfParts_reversed(_)
CallsOfParts_reversed(ps) ==
  IF ps = <<>> THEN <<>>
  ELSE CallsOfParts_reversed(Tail(ps)) \o
       (IF Has(Head(ps), "functionCall")
          THEN <<[name |-> Head(ps).functionCall.name,
                  args |-> IF Has(Head(ps).functionCall, "args")
                             THEN Head(ps).functionCall.args
                             ELSE EmptyArgs]>>
          ELSE <<>>)

\* lines 157-163: the calls of one candidate's parts
RECURSIVE CallsOfParts(_)
CallsOfParts(ps) ==
  IF ps = <<>> THEN <<>>
  ELSE (IF Has(Head(ps), "functionCall")
          THEN <<[name |-> Head(ps).functionCall.name,
                  args |-> IF Has(Head(ps).functionCall, "args")
                             THEN Head(ps).functionCall.args
                             ELSE EmptyArgs]>>
          ELSE <<>>) \o CallsOfParts(Tail(ps))

\* lines 153-164
RECURSIVE CollectCalls(_)
CollectCalls(cs) ==
  IF cs = <<>> THEN <<>>
  ELSE CallsOfParts(Head(cs).content.parts) \o CollectCalls(Tail(cs))

\* lines 183, 193: first.response.candidates?.[0]?.content?.parts ?? []
ModelParts(resp) ==
  IF resp.candidates = <<>> THEN <<>> ELSE resp.candidates[1].content.parts

\* JSON.parse
JSONParse(t) ==
  IF Len(t) = 3 /\ t[1] = "{" /\ t[3] = "}"
    THEN [ok |-> TRUE, value |-> t[2]]
    ELSE [ok |-> FALSE]

\* a decoder that takes a reply without text for an empty payload
ReplyTextOf_default(res) ==
  IF Has(res, "content") /\ res.content # <<>> /\ Has(res.content[1], "text")
       /\ res.content[1].text # <<>>
    THEN res.content[1].text
    ELSE Stringify(Payload(0))

\* lines 34-36
ReplyTextOf(res) ==
  IF Has(res, "content") /\ res.content # <<>> /\ Has(res.content[1], "text")
    THEN res.content[1].text
    ELSE <<>>

\* ------------------------------------------------------------------------
\* State.  Every variable is a function of the request.  The locals of a
\* request's run of the /chat handler exist while the handler runs and are
\* reset when it has responded; the history variables are kept.
\* ------------------------------------------------------------------------
VARIABLES
  pc,           \* where the handler is suspended
  userMessage,  \* line 142
  round,        \* 1 or 2: the generateWithRetry call site the handler reached
  modelName,    \* generateWithRetry's modelName
  sent,         \* generateWithRetry's args.contents
  attempt,      \* generateWithRetry's loop variable
  first,        \* line 145: first.response
  calls,        \* line 153
  callIdx,      \* position of the for loop of line 168 in calls
  toolParts,    \* line 167
  toolRes,      \* callMcpGetPrices' res (line 27)
  conns,        \* MCP connections of the request that are connected and not closed
  responses,    \* HTTP responses sent for the request, in order
  genLog,       \* history: the generateWithRetry invocations of the round, in order
  trace,        \* history: events of the latest generateWithRetry invocation
  lastResp,     \* history: the latest response generateContent returned
  toolLog,      \* history: the callMcpGetPrices invocations, in order
  caught,       \* history: the message of the error the catch of line 218 got
  hist          \* history, kept where a specification records it: the calls to
                \* the collaborators that have returned, with what they returned

locals == <<userMessage, modelName, sent, attempt, first, calls, callIdx,
            toolParts, toolRes>>

vars == <<pc, userMessage, round, modelName, sent, attempt, first, calls,
          callIdx, toolParts, toolRes, conns, responses, genLog, trace,
          lastResp, toolLog, caught, hist>>

Requests == DOMAIN pc

Ev(e, ms) == [ev |-> e, ms |-> ms]

\* lines 146, 149
Contents1(msg) == << [role |-> "user", parts |-> <<[text |-> msg]>>] >>

\* a round-2 conversation whose model turn is rebuilt from the function calls
Contents2_callsOnly(msg, resp, tp) ==
  << [role |-> "user", parts |-> <<[text |-> msg]>>],
     [role |-> "model",
      parts |-> SelectSeq(ModelParts(resp), LAMBDA p : Has(p, "functionCall"))],
     [role |-> "tool", parts |-> tp] >>

\* lines 179-186, 189-196
Contents2(msg, resp, tp) ==
  << [role |-> "user", parts |-> <<[text |-> msg]>>],
     [role |-> "model", parts |-> ModelParts(resp)],
     [role |-> "tool", parts |-> tp] >>

\* a loop that executes every call, whatever its name
NextCall_any(cs, i) == IF i <= Len(cs) THEN i ELSE 0

\* a loop that stops after the first call it executed
NextCall_once(cs, i) ==
  IF i = 1 /\ \E j \in 1..Len(cs) : cs[j].name = ToolName
    THEN CHOOSE j \in 1..Len(cs) :
           /\ cs[j].name = ToolName
           /\ \A k \in 1..(j - 1) : cs[k].name # ToolName
    ELSE 0

\* lines 168-169: the next call at or after position i that the loop executes
NextCall(cs, i) ==
  IF \E j \in i..Len(cs) : cs[j].name = ToolName
    THEN CHOOSE j \in i..Len(cs) :
           /\ cs[j].name = ToolName
           /\ \A k \in i..(j - 1) : cs[k].name # ToolName
    ELSE 0

\* a log with the outcome of its last entry set
Close(log, out) == [log EXCEPT ![Len(log)].outcome = out]

\* the state before any request has arrived, for the requests in S
Start(S) ==
  /\ pc = [r \in S |-> "idle"]
  /\ userMessage = [r \in S |-> <<>>]
  /\ round = [r \in S |-> 0]
  /\ modelName = [r \in S |-> PRIMARY_MODEL]
  /\ sent = [r \in S |-> NoContents]
  /\ attempt = [r \in S |-> 0]
  /\ first = [r \in S |-> None]
  /\ calls = [r \in S |-> <<>>]
  /\ callIdx = [r \in S |-> 0]
  /\ toolParts = [r \in S |-> <<>>]
  /\ toolRes = [r \in S |-> None]
  /\ conns = [r \in S |-> 0]
  /\ responses = [r \in S |-> <<>>]
  /\ genLog = [r \in S |-> <<>>]
  /\ trace = [r \in S |-> <<>>]
  /\ lastResp = [r \in S |-> None]
  /\ toolLog = [r \in S |-> <<>>]
  /\ caught = [r \in S |-> NoError]
  /\ hist = [r \in S |-> <<>>]

Init == Start({1})

\* the handler returns after sending res: its locals are gone
Finish(r, res) ==
  /\ pc' = [pc EXCEPT ![r] = "done"]
  /\ responses' = [responses EXCEPT ![r] = Append(@, res)]
  /\ userMessage' = [userMessage EXCEPT ![r] = <<>>]
  /\ modelName' = [modelName EXCEPT ![r] = PRIMARY_MODEL]
  /\ sent' = [sent EXCEPT ![r] = NoContents]
  /\ attempt' = [attempt EXCEPT ![r] = 0]
  /\ first' = [first EXCEPT ![r] = None]
  /\ calls' = [calls EXCEPT ![r] = <<>>]
  /\ callIdx' = [callIdx EXCEPT ![r] = 0]
  /\ toolParts' = [toolParts EXCEPT ![r] = <<>>]
  /\ toolRes' = [toolRes EXCEPT ![r] = None]

\* a catch that also sends what there is of a reply
Respond503_partial(r, msg) ==
  /\ Finish(r, [status |-> 503, body |-> [error |-> msg, reply |-> NoReply]])
  /\ caught' = [caught EXCEPT ![r] = msg]

\* a catch that answers with the message of line 73 whatever the error is
Respond503_generic(r, msg) ==
  /\ Finish(r, [status |-> 503, body |-> [error |-> <<"retry exhausted">>]])
  /\ caught' = [caught EXCEPT ![r] = msg]

\* lines 218-221: the catch of the handler
Respond503(r, msg) ==
  /\ Finish(r, [status |-> 503, body |-> [error |-> msg]])
  /\ caught' = [caught EXCEPT ![r] = msg]

\* a reply that carries the text of round 1 in front of the text of round 2
Respond200_bothRounds(r, text) ==
  /\ Finish(r, [status |-> 200,
                body |-> [reply |-> IF first[r] = None THEN text
                                    ELSE ReplyText(first[r]) \o NL \o text]])
  /\ UNCHANGED caught

\* a reply that carries the count of requests, kept at module level
Respond200_counted(r, text) ==
  /\ Finish(r, [status |-> 200, body |-> [reply |-> text \o <<"#", r>>]])
  /\ UNCHANGED caught

\* lines 208, 217
Respond200(r, text) ==
  /\ Finish(r, [status |-> 200, body |-> [reply |-> text]])
  /\ UNCHANGED caught

\* an entry that keeps the loop variable in one place for all requests
StartGen_sharedAttempt(r, rnd, mdl, contents, log) ==
  /\ pc' = [pc EXCEPT ![r] = "awaitGen"]
  /\ round' = [round EXCEPT ![r] = rnd]
  /\ modelName' = [modelName EXCEPT ![r] = mdl]
  /\ sent' = [sent EXCEPT ![r] = contents]
  /\ attempt' = [q \in DOMAIN attempt |-> 0]
  /\ trace' = [trace EXCEPT ![r] = <<Ev("call", 0)>>]
  /\ genLog' = [genLog EXCEPT ![r] =
                  Append(log, [round |-> rnd, model |-> mdl,
                               outcome |-> "pending"])]

\* lines 45-61: generateWithRetry is entered with contents and makes its
\* first generateContent call; log is the history so far
StartGen(r, rnd, mdl, contents, log) ==
  /\ pc' = [pc EXCEPT ![r] = "awaitGen"]
  /\ round' = [round EXCEPT ![r] = rnd]
  /\ modelName' = [modelName EXCEPT ![r] = mdl]
  /\ sent' = [sent EXCEPT ![r] = contents]
  /\ attempt' = [attempt EXCEPT ![r] = 0]
  /\ trace' = [trace EXCEPT ![r] = <<Ev("call", 0)>>]
  /\ genLog' = [genLog EXCEPT ![r] =
                  Append(log, [round |-> rnd, model |-> mdl,
                               outcome |-> "pending"])]

\* lines 168-178: the for loop from position i on, with toolParts = tp:
\* either the next get_el_price call enters callMcpGetPrices (lines 20-25),
\* or the loop ends and round 2 starts
LoopFrom(r, msg, resp, cs, i, tp, log, tr, tl) ==
  LET j == NextCall(cs, i) IN
  IF j # 0
    THEN /\ pc' = [pc EXCEPT ![r] = "awaitConnect"]
         /\ callIdx' = [callIdx EXCEPT ![r] = j]
         /\ toolLog' = [toolLog EXCEPT ![r] =
                          Append(tl, [args |-> cs[j].args, outcome |-> "pending"])]
         /\ genLog' = [genLog EXCEPT ![r] = log]
         /\ modelName' = [modelName EXCEPT ![r] = PRIMARY_MODEL]
         /\ sent' = [sent EXCEPT ![r] = NoContents]
         /\ attempt' = [attempt EXCEPT ![r] = 0]
         /\ trace' = [trace EXCEPT ![r] = tr]
         /\ UNCHANGED round
    ELSE /\ StartGen(r, 2, PRIMARY_MODEL, Contents2(msg, resp, tp), <<>>)
         /\ callIdx' = [callIdx EXCEPT ![r] = Len(cs) + 1]
         /\ toolLog' = [toolLog EXCEPT ![r] = tl]

\* lines 140-146: a request arrives; the handler runs up to the first
\* generateContent call
Receive(r, body) ==
  /\ pc[r] = "idle"
  /\ LET msg == IF Has(body, "message") THEN body.message ELSE <<>> IN
       /\ userMessage' = [userMessage EXCEPT ![r] = msg]
       /\ StartGen(r, 1, PRIMARY_MODEL, Contents1(msg), genLog[r])
  /\ UNCHANGED <<first, calls, callIdx, toolParts, toolRes, conns, responses,
                 lastResp, toolLog, caught>>

\* a fallback that sends the round-1 conversation in either round
FallbackContents_round1(r) == Contents1(userMessage[r])

\* the conversation the catch of line 147 or 187 builds for the fallback
FallbackContents(r) ==
  IF round[r] = 1
    THEN Contents1(userMessage[r])
    ELSE Contents2(userMessage[r], first[r], toolParts[r])

\* a loop that retries whatever the error is
Throws_retryAll(r, err) == attempt[r] = Len(backoff)

\* line 68: the error leaves generateWithRetry
Throws(r, err) == ~retriable(err) \/ attempt[r] = Len(backoff)

\* a delay that does not grow
Delay_first(a) == backoff[1]

\* line 69: the delay slept after failed attempt a
Delay(a) == backoff[a + 1]

\* lines 62-70: generateContent rejects with err
GenFail(r, err) ==
  /\ pc[r] = "awaitGen"
  /\ IF ~Throws(r, err)
       THEN \* line 69
            /\ pc' = [pc EXCEPT ![r] = "sleeping"]
            /\ trace' = [trace EXCEPT ![r] =
                 @ \o <<Ev(Failed(err), 0), Ev("sleep", Delay(attempt[r]))>>]
            /\ UNCHANGED <<round, modelName, sent, attempt, genLog, responses,
                           caught>>
            /\ UNCHANGED <<userMessage, first, calls, callIdx, toolParts, toolRes>>
       ELSE IF modelName[r] = PRIMARY_MODEL
         THEN \* lines 147-150, 187-197: the catch starts the fallback
              /\ StartGen(r, round[r], FALLBACK_MODEL, FallbackContents(r),
                          Close(genLog[r], Thrown(err)))
              /\ UNCHANGED <<responses, caught>>
              /\ UNCHANGED <<userMessage, first, calls, callIdx, toolParts, toolRes>>
         ELSE \* the error reaches the catch of line 218
              /\ Respond503(r, err)
              /\ trace' = [trace EXCEPT ![r] = Append(@, Ev(Failed(err), 0))]
              /\ genLog' = [genLog EXCEPT ![r] = Close(@, Thrown(err))]
              /\ UNCHANGED round
  /\ UNCHANGED <<conns, lastResp, toolLog>>

\* lines 42, 52: the backoff timer fires; the loop makes its next call
Wake(r) ==
  /\ pc[r] = "sleeping"
  /\ pc' = [pc EXCEPT ![r] = "awaitGen"]
  /\ attempt' = [attempt EXCEPT ![r] = @ + 1]
  /\ trace' = [trace EXCEPT ![r] = Append(@, Ev("call", 0))]
  /\ UNCHANGED <<userMessage, round, modelName, sent, first, calls, callIdx,
                 toolParts, toolRes, conns, responses, genLog, lastResp, toolLog,
                 caught>>

\* line 61 returns resp; the handler runs on: lines 153-178 in round 1,
\* lines 200-208 in round 2
GenOk(r, resp) ==
  /\ pc[r] = "awaitGen"
  /\ lastResp' = [lastResp EXCEPT ![r] = resp]
  /\ IF round[r] = 1
       THEN LET cs == CollectCalls(resp.candidates) IN
            IF Len(cs) > 0
              THEN /\ first' = [first EXCEPT ![r] = resp]
                   /\ calls' = [calls EXCEPT ![r] = cs]
                   /\ LoopFrom(r, userMessage[r], resp, cs, 1, <<>>,
                               Close(genLog[r], "ok"),
                               Append(trace[r], Ev("ok", 0)), toolLog[r])
                   /\ UNCHANGED <<userMessage, toolParts, toolRes, responses,
                                  caught>>
              ELSE /\ Respond200(r, ReplyText(resp))
                   /\ genLog' = [genLog EXCEPT ![r] = Close(@, "ok")]
                   /\ trace' = [trace EXCEPT ![r] = Append(@, Ev("ok", 0))]
                   /\ UNCHANGED <<round, toolLog>>
       ELSE /\ Respond200(r, ReplyText(resp))
            /\ genLog' = [genLog EXCEPT ![r] = Close(@, "ok")]
            /\ trace' = [trace EXCEPT ![r] = Append(@, Ev("ok", 0))]
            /\ UNCHANGED <<round, toolLog>>
  /\ UNCHANGED conns

\* a tool call fails with msg: the error reaches the catch of line 218
ToolThrows(r, msg) ==
  /\ Respond503(r, msg)
  /\ toolLog' = [toolLog EXCEPT ![r] = Close(@, "failed")]
  /\ UNCHANGED <<round, genLog, trace, lastResp>>

\* line 25 resolves; line 27 sends the call
ConnectOk(r) ==
  /\ pc[r] = "awaitConnect"
  /\ pc' = [pc EXCEPT ![r] = "awaitCallTool"]
  /\ conns' = [conns EXCEPT ![r] = @ + 1]
  /\ UNCHANGED <<locals, round, responses, genLog, trace, lastResp, toolLog,
                 caught>>

\* line 25 rejects
ConnectFail(r) ==
  /\ pc[r] = "awaitConnect"
  /\ ToolThrows(r, ErrConnect)
  /\ UNCHANGED conns

\* line 27 resolves with res; line 32 starts the close
CallToolOk(r, res) ==
  /\ pc[r] = "awaitCallTool"
  /\ pc' = [pc EXCEPT ![r] = "awaitClose"]
  /\ toolRes' = [toolRes EXCEPT ![r] = res]
  /\ UNCHANGED <<userMessage, modelName, sent, attempt, first, calls, callIdx,
                 toolParts, round, conns, responses, genLog, trace, lastResp,
                 toolLog, caught>>

\* line 27 rejects: line 32 is not reached
CallToolFail(r) ==
  /\ pc[r] = "awaitCallTool"
  /\ ToolThrows(r, ErrCallTool)
  /\ UNCHANGED conns

\* line 32 resolves; lines 34-38 decode the reply; lines 171-178 go on
CloseOk(r) ==
  /\ pc[r] = "awaitClose"
  /\ conns' = [conns EXCEPT ![r] = @ - 1]
  /\ LET text == ReplyTextOf(toolRes[r])
         parsed == JSONParse(text)
     IN IF text = <<>>
          THEN ToolThrows(r, MalformedMsg)
          ELSE IF ~parsed.ok
            THEN ToolThrows(r, ErrSyntax)
            ELSE LET tp == Append(toolParts[r],
                             [functionResponse |->
                                [name |-> calls[r][callIdx[r]].name,
                                 response |-> parsed.value]])
                 IN /\ toolParts' = [toolParts EXCEPT ![r] = tp]
                    /\ toolRes' = [toolRes EXCEPT ![r] = None]
                    /\ LoopFrom(r, userMessage[r], first[r], calls[r],
                                callIdx[r] + 1, tp, genLog[r], trace[r],
                                Close(toolLog[r], "ok"))
                    /\ UNCHANGED <<userMessage, first, calls, responses, lastResp,
                                   caught>>

Next ==
  \/ \E r \in Requests : \E body \in Bodies :
       Receive(r, body) /\ UNCHANGED hist
  \/ \E r \in Requests : \E resp \in Responses :
       GenOk(r, resp) /\ UNCHANGED hist
  \/ \E r \in Requests : \E err \in GenErrors :
       GenFail(r, err) /\ UNCHANGED hist
  \/ \E r \in Requests : Wake(r) /\ UNCHANGED hist
  \/ \E r \in Requests : ConnectOk(r) /\ UNCHANGED hist
  \/ \E r \in Requests : ConnectFail(r) /\ UNCHANGED hist
  \/ \E r \in Requests : \E res \in ToolReplies(Len(toolLog[r])) :
       CallToolOk(r, res) /\ UNCHANGED hist
  \/ \E r \in Requests : CallToolFail(r) /\ UNCHANGED hist
  \/ \E r \in Requests : CloseOk(r) /\ UNCHANGED hist

Spec == Init /\ [][Next]_vars

\* ------------------------------------------------------------------------
\* The handler against recorded collaborators.  A request is suspended at a
\* call to a collaborator; the call returns an outcome and the handler
\* resumes.  The collaborators here answer from small sets, so that whole
\* histories of a turn, and two requests at once, can be explored.
\* ------------------------------------------------------------------------
SmallBodies == { [message |-> <<"h", "i">>], [lang |-> "sv"] }
SmallResponses ==
  { ResponseOf(<< <<"text">> >>), ResponseOf(<< <<"price">> >>),
    ResponseOf(<< <<"other">> >>) }
SmallErrors == {Err503, Err400}
SmallToolReplies(k) ==
  { [content |-> <<[type |-> "text", text |-> Stringify(Payload(k))]>>],
    [content |-> <<>>] }

Resolved(v) == [ok |-> TRUE, value |-> v]
Rejected(e) == [ok |-> FALSE, error |-> e]

\* the call request r is suspended at, with its arguments
PendingCall(r) ==
  CASE pc[r] = "idle" -> [op |-> "request"]
    [] pc[r] = "awaitGen" ->
         [op |-> "generateContent", model |-> modelName[r], contents |-> sent[r]]
    [] pc[r] = "sleeping" -> [op |-> "wait", ms |-> Delay(attempt[r])]
    [] pc[r] = "awaitConnect" -> [op |-> "connect"]
    [] pc[r] = "awaitCallTool" ->
         [op |-> "callTool", name |-> "elpris.getPrices",
          arguments |-> calls[r][callIdx[r]].args]
    [] pc[r] = "awaitClose" -> [op |-> "close"]
    [] OTHER -> [op |-> "none"]

\* the outcomes the small collaborators can give to the pending call of r
Outcomes(r) ==
  CASE pc[r] = "idle" -> { Resolved(b) : b \in SmallBodies }
    [] pc[r] = "awaitGen" ->
         { Resolved(resp) : resp \in SmallResponses }
           \cup { Rejected(e) : e \in SmallErrors }
    [] pc[r] = "sleeping" -> { Resolved(<<>>) }
    [] pc[r] = "awaitConnect" -> { Resolved(<<>>), Rejected(ErrConnect) }
    [] pc[r] = "awaitCallTool" ->
         { Resolved(res) : res \in SmallToolReplies(Len(toolLog[r])) }
           \cup { Rejected(ErrCallTool) }
    [] pc[r] = "awaitClose" -> { Resolved(<<>>) }
    [] OTHER -> {}

\* the pending call of r returns out and the handler runs to its next call
Resume(r, out) ==
  CASE pc[r] = "idle" -> Receive(r, out.value)
    [] pc[r] = "awaitGen" ->
         IF out.ok THEN GenOk(r, out.value) ELSE GenFail(r, out.error)
    [] pc[r] = "sleeping" -> Wake(r)
    [] pc[r] = "awaitConnect" -> IF out.ok THEN ConnectOk(r) ELSE ConnectFail(r)
    [] pc[r] = "awaitCallTool" ->
         IF out.ok THEN CallToolOk(r, out.value) ELSE CallToolFail(r)
    [] pc[r] = "awaitClose" -> CloseOk(r)
    [] OTHER -> FALSE

\* the returned call is put on record when rec says so
Note(r, rec, out) ==
  hist' = IF rec
            THEN [hist EXCEPT ![r] = Append(@, [call |-> PendingCall(r), out |-> out])]
            ELSE hist

SmallStep(r, rec) == \E out \in Outcomes(r) : Resume(r, out) /\ Note(r, rec, out)

\* request q gets, for its next call, what request p got for the call at the
\* same place of its turn: the collaborators are deterministic
Replay(q, p) ==
  LET k == Len(hist[q]) + 1 IN
  /\ k <= Len(hist[p])
  /\ PendingCall(q).op = hist[p][k].call.op
  /\ Resume(q, hist[p][k].out)
  /\ Note(q, TRUE, hist[p][k].out)

\* one request, every call on record; each pending call returns in the end
NextBudget == \E r \in Requests : SmallStep(r, TRUE)
SpecBudget == Init /\ [][NextBudget]_vars /\ WF_vars(NextBudget)

\* two requests, interleaved at will
InitPair == Start({1, 2})
NextPair == \E r \in Requests : SmallStep(r, FALSE)
SpecPair == InitPair /\ [][NextPair]_vars

\* two requests, the second served as the first was; the first goes on when
\* the second has caught up with it
NextTwin ==
  \/ hist[2] = hist[1] /\ SmallStep(1, TRUE)
  \/ Replay(2, 1)
SpecTwin == InitPair /\ [][NextTwin]_vars

\* ------------------------------------------------------------------------
\* Vocabulary of the properties, defined from the response object itself
\* ------------------------------------------------------------------------
\* the content parts of a response, over all candidates, in order
RECURSIVE AllParts(_)
AllParts(cs) ==
  IF cs = <<>> THEN <<>> ELSE Head(cs).content.parts \o AllParts(Tail(cs))

IsText(p) == "text" \in DOMAIN p
IsCall(p) == "functionCall" \in DOMAIN p
IsPriceCall(p) == IsCall(p) /\ p.functionCall.name = "get_el_price"

TextPartsOf(resp) == SelectSeq(AllParts(resp.candidates), IsText)
CallPartsOf(resp) == SelectSeq(AllParts(resp.candidates), IsCall)
PriceCallsOf(resp) == SelectSeq(AllParts(resp.candidates), IsPriceCall)

\* the arguments of a function-call part; absent arguments are {}
ArgsOf(p) ==
  IF "args" \in DOMAIN p.functionCall THEN p.functionCall.args ELSE EmptyArgs

\* the texts of parts ps, one after the other
RECURSIVE Concat(_)
Concat(ps) == IF ps = <<>> THEN <<>> ELSE Head(ps).text \o Concat(Tail(ps))

\* the non-empty texts of parts ps, with a newline between two of them
RECURSIVE Lines(_)
Lines(ps) ==
  IF ps = <<>> THEN <<>>
  ELSE LET front == Lines(SubSeq(ps, 1, Len(ps) - 1))
           t == ps[Len(ps)].text
       IN IF t = <<>> THEN front
          ELSE IF front = <<>> THEN t
          ELSE front \o <<"\n">> \o t

\* the reply for a response: its lines, or the placeholder when it has none
ReplyFor(resp) ==
  IF Lines(TextPartsOf(resp)) = <<>>
    THEN <<"(", "i", "n", "g", "e", "t", " ", "s", "v", "a", "r", ")">>
    ELSE Lines(TextPartsOf(resp))

Ok200(text) == [status |-> 200, body |-> [reply |-> text]]

\* generateWithRetry has been invoked in round k
Invoked(r, k) == round[r] >= k
\* a generateWithRetry invocation of round k returned a response
Returned(r, k) ==
  \E i \in 1..Len(genLog[r]) :
    genLog[r][i].round = k /\ genLog[r][i].outcome = "ok"
\* round 1 has returned and round 2 has not: lastResp is round 1's response
HasRound1(r) == lastResp[r] # None /\ ~Returned(r, 2)
\* round 2 has returned: lastResp is round 2's response
HasRound2(r) == Returned(r, 2)

\* ------------------------------------------------------------------------
\* C1
\* ------------------------------------------------------------------------
\* C1 as claimed: when the round-1 response has no function call, the turn
\* has ended with no tool call and no round-2 invocation, and the reply is
\* the round-1 text parts concatenated
C1_Claim ==
  \A r \in Requests :
    (HasRound1(r) /\ CallPartsOf(lastResp[r]) = <<>>) =>
      /\ pc[r] = "done"
      /\ toolLog[r] = <<>>
      /\ ~Invoked(r, 2)
      /\ responses[r] = <<Ok200(Concat(TextPartsOf(lastResp[r])))>>

\* C1 amended: when the round-1 response has no function call, the turn has
\* ended with no tool call and no round-2 invocation, and the reply is the
\* non-empty round-1 text parts of all candidates in order, joined by
\* newlines, or "(inget svar)" when there is none
C1_Thm ==
  \A r \in Requests :
    (HasRound1(r) /\ CallPartsOf(lastResp[r]) = <<>>) =>
      /\ pc[r] = "done"
      /\ toolLog[r] = <<>>
      /\ ~Invoked(r, 2)
      /\ responses[r] = <<Ok200(ReplyFor(lastResp[r]))>>

C1_Witness ==
  \E r \in Requests :
    /\ HasRound1(r) /\ CallPartsOf(lastResp[r]) = <<>>
    /\ Len(lastResp[r].candidates) = 2
    /\ Len(TextPartsOf(lastResp[r])) = 2
    /\ pc[r] = "done"
    /\ responses[r] = <<Ok200(<<"a", "\n", "b">>)>>

\* ------------------------------------------------------------------------
\* C2
\* ------------------------------------------------------------------------
\* the parts of the model turn of a response: those of its first candidate
ModelTurnOf(resp) ==
  IF Len(resp.candidates) = 0 THEN <<>> ELSE resp.candidates[1].content.parts

UserTurn(msg) == [role |-> "user", parts |-> <<[text |-> msg]>>]
ToolResult(k) ==
  [functionResponse |-> [name |-> "get_el_price", response |-> <<"prices", k>>]]

\* C2: when the round-1 response has exactly one function call named
\* get_el_price, the tool bridge is invoked exactly once, with that call's
\* arguments, and the conversation of round 2 is the user turn, the model
\* turn with the parts of the round-1 model turn, and a tool turn with the
\* one functionResponse part that carries the bridge's payload
C2_Thm ==
  \A r \in Requests :
    (first[r] # None /\ Len(PriceCallsOf(first[r])) = 1) =>
      /\ Len(toolLog[r]) = 1
      /\ toolLog[r][1].args = ArgsOf(PriceCallsOf(first[r])[1])
      /\ Invoked(r, 2) =>
           /\ toolLog[r][1].outcome = "ok"
           /\ sent[r] = << UserTurn(userMessage[r]),
                           [role |-> "model", parts |-> ModelTurnOf(first[r])],
                           [role |-> "tool", parts |-> <<ToolResult(1)>>] >>

C2_Witness ==
  \E r \in Requests :
    /\ first[r] # None /\ Len(PriceCallsOf(first[r])) = 1
    /\ Len(ModelTurnOf(first[r])) = 2
    /\ userMessage[r] = <<"h", "i">>
    /\ Invoked(r, 2) /\ pc[r] = "awaitGen" /\ Len(sent[r]) = 3

\* ------------------------------------------------------------------------
\* C3
\* ------------------------------------------------------------------------
\* the bridge got the arguments of the first get_el_price calls of the
\* round-1 response, in order, and of no other call
OnlyPriceCallsRun(r) ==
  first[r] # None =>
    /\ Len(toolLog[r]) <= Len(PriceCallsOf(first[r]))
    /\ \A k \in 1..Len(toolLog[r]) :
         toolLog[r][k].args = ArgsOf(PriceCallsOf(first[r])[k])

\* a round-1 response whose calls are all unrecognized leads to round 2 with
\* no tool call, an empty tool turn and no error but one of round 2's model
UnrecognizedSkipped(r) ==
  (HasRound1(r) /\ CallPartsOf(lastResp[r]) # <<>>
     /\ PriceCallsOf(lastResp[r]) = <<>>) =>
    /\ toolLog[r] = <<>>
    /\ Invoked(r, 2)
    /\ sent[r] # <<>> => sent[r][3] = [role |-> "tool", parts |-> <<>>]
    /\ caught[r] # <<>> =>
         /\ genLog[r][Len(genLog[r])].round = 2
         /\ genLog[r][Len(genLog[r])].outcome \in {"exhausted", "fatal"}

\* C3 as claimed: unrecognized calls are never passed to the bridge and cause
\* no error, and a turn whose round-1 response has a function call never
\* ends without round 2 having been invoked
C3_Claim ==
  \A r \in Requests :
    /\ OnlyPriceCallsRun(r)
    /\ UnrecognizedSkipped(r)
    /\ (HasRound1(r) /\ CallPartsOf(lastResp[r]) # <<>> /\ pc[r] = "done") =>
         Invoked(r, 2)

\* C3 amended: unrecognized calls are never passed to the bridge and cause
\* no error; a turn whose round-1 response has a function call ends without
\* round 2 only when a tool-bridge call failed; when every call was
\* unrecognized, round 2 is invoked with a tool turn of zero parts
C3_Thm ==
  \A r \in Requests :
    /\ OnlyPriceCallsRun(r)
    /\ UnrecognizedSkipped(r)
    /\ (HasRound1(r) /\ CallPartsOf(lastResp[r]) # <<>> /\ pc[r] = "done"
          /\ ~Invoked(r, 2)) =>
         /\ toolLog[r] # <<>>
         /\ toolLog[r][Len(toolLog[r])].outcome = "failed"

C3_Witness ==
  \E r \in Requests :
    /\ HasRound1(r)
    /\ Len(CallPartsOf(lastResp[r])) = 2
    /\ PriceCallsOf(lastResp[r]) = <<>>
    /\ Invoked(r, 2) /\ pc[r] = "awaitGen"
    /\ sent[r][3].parts = <<>>

\* ------------------------------------------------------------------------
\* C4
\* ------------------------------------------------------------------------
Policy == <<500, 1000, 2000, 4000>>

EvCount(t, e) == Cardinality({i \in 1..Len(t) : t[i].ev = e})

\* n failed attempts, each followed by its sleep, and then one more attempt
Cycle(t, n) ==
  /\ Len(t) >= 3 * n + 1
  /\ \A k \in 0..(n - 1) :
       /\ t[3 * k + 1].ev = "call"
       /\ t[3 * k + 2].ev = "fail"
       /\ t[3 * k + 3] = [ev |-> "sleep", ms |-> Policy[k + 1]]
  /\ t[3 * n + 1].ev = "call"

\* C4: a generateWithRetry invocation that returned a result after N
\* attempts failed with retriable errors made N + 1 attempts, N <= 4, and
\* slept N times, after each failed attempt and before the next one, with
\* the delays 500, 1000, 2000, 4000 in this order; the handler got the result
C4_Thm ==
  \A r \in Requests :
    LET t == trace[r]
        n == EvCount(t, "fail")
    IN (t # <<>> /\ t[Len(t)].ev = "ok" /\ EvCount(t, "fatal") = 0) =>
         /\ n \in 0..4
         /\ Len(t) = 3 * n + 2
         /\ Cycle(t, n)
         /\ EvCount(t, "sleep") = n
         /\ first[r] # None /\ HasRound1(r) => first[r] = lastResp[r]

C4_Witness ==
  \E r \in Requests :
    /\ Len(trace[r]) = 14
    /\ trace[r][14].ev = "ok"
    /\ trace[r][12] = [ev |-> "sleep", ms |-> 4000]
    /\ first[r] # None

\* ------------------------------------------------------------------------
\* C5
\* ------------------------------------------------------------------------
PrimaryThenFallback(log) ==
  /\ Len(log) <= 2
  /\ Len(log) >= 1 => log[1].model = "gemini-1.5-flash"
  /\ Len(log) = 2 => /\ log[2].model = "gemini-1.5-flash-8b"
                     /\ log[2].round = log[1].round

\* the fallback has just returned a response after the primary was exhausted
FallbackReturns(r) ==
  /\ Len(genLog[r]) = 2 /\ genLog[r][2].outcome = "pending"
  /\ genLog[r][1].outcome = "exhausted"
  /\ lastResp'[r] # lastResp[r]

C5_Step(r) ==
  /\ PrimaryThenFallback(genLog'[r])
  \* the fallback starts after the exhaustion of the primary
  /\ (Len(genLog[r]) = 1 /\ Len(genLog'[r]) = 2
        /\ genLog'[r][1].outcome = "exhausted") =>
       /\ Len(trace[r]) = 13 /\ Cycle(trace[r], 4)
       /\ EvCount(trace[r], "call") = 5 /\ EvCount(trace[r], "sleep") = 4
       /\ trace'[r] = <<[ev |-> "call", ms |-> 0]>>
       /\ sent'[r] = sent[r]
       /\ round'[r] = round[r]
  /\ FallbackReturns(r) =>
       \/ /\ pc'[r] = "done"
          /\ responses'[r] = <<Ok200(ReplyFor(lastResp'[r]))>>
       \/ /\ round[r] = 1
          /\ first'[r] = lastResp'[r]

\* C5: when the primary model fails all its attempts with retriable errors,
\* the fallback starts after exactly 5 attempts and 4 sleeps against the
\* primary, with the identical conversation and in the same round; the
\* primary is not tried again in the round; and when the fallback returns a
\* response, the handler goes on with that response
C5_Thm == [][\A r \in Requests : C5_Step(r)]_vars

C5_Witness ==
  \E r \in Requests :
    /\ Len(genLog[r]) = 2
    /\ genLog[r][1] = [round |-> 2, model |-> "gemini-1.5-flash",
                       outcome |-> "exhausted"]
    /\ genLog[r][2] = [round |-> 2, model |-> "gemini-1.5-flash-8b",
                       outcome |-> "ok"]
    /\ pc[r] = "done"
    /\ responses[r] = <<Ok200(ReplyFor(lastResp[r]))>>

\* ------------------------------------------------------------------------
\* C6
\* ------------------------------------------------------------------------
\* C6: the fallback model is invoked only after the primary failed all its
\* attempts with retriable errors, and a non-retriable error of the primary
\* ends the turn with the error response and no further generation call
C6_Claim ==
  \A r \in Requests :
    /\ Len(genLog[r]) = 2 => genLog[r][1].outcome = "exhausted"
    /\ \A i \in 1..Len(genLog[r]) :
         genLog[r][i].outcome = "fatal" =>
           /\ i = Len(genLog[r])
           /\ pc[r] = "done"
           /\ Len(responses[r]) = 1 /\ responses[r][1].status = 503

\* ------------------------------------------------------------------------
\* C7
\* ------------------------------------------------------------------------
LastOf(log) == log[Len(log)]

\* every failed invocation of the round was made good by the one after it
Recovered(log) ==
  /\ log # <<>> /\ LastOf(log).outcome = "ok"
  /\ \A i \in 1..(Len(log) - 1) : log[i].outcome \in {"exhausted", "fatal"}

\* C7: a request has at most one HTTP response, and has it exactly when its
\* handler is done; the response is either 200 with a body of the reply
\* field only, sent from a turn without unrecovered error, or 503 with a
\* body of the error field only, which carries the message of the error
C7_Thm ==
  \A r \in Requests :
    /\ Len(responses[r]) <= 1
    /\ pc[r] = "done" <=> Len(responses[r]) = 1
    /\ \A i \in 1..Len(responses[r]) :
         LET x == responses[r][i] IN
         \/ /\ x.status = 200
            /\ DOMAIN x.body = {"reply"}
            /\ caught[r] = <<>>
            /\ Recovered(genLog[r])
            /\ \A k \in 1..Len(toolLog[r]) : toolLog[r][k].outcome = "ok"
         \/ /\ x.status = 503
            /\ DOMAIN x.body = {"error"}
            /\ caught[r] # <<>>
            /\ x.body.error = caught[r]
            /\ \/ LastOf(genLog[r]).outcome \in {"exhausted", "fatal"}
               \/ /\ toolLog[r] # <<>>
                  /\ LastOf(toolLog[r]).outcome = "failed"

C7_Witness ==
  \E r \in Requests :
    /\ pc[r] = "done"
    /\ responses[r] = <<[status |-> 503, body |-> [error |-> Err429]]>>
    /\ round[r] = 2
    /\ Len(toolLog[r]) = 1

\* ------------------------------------------------------------------------
\* C8
\* ------------------------------------------------------------------------
InBridge(r) == pc[r] \in {"awaitConnect", "awaitCallTool", "awaitClose"}

\* C8: a tool-bridge call that failed is the last one of the turn, the turn
\* is over with a 503 response of the error field only, and round 2 was not
\* invoked; a call counts as completed only when it yielded the payload of
\* a well-formed reply
C8_Thm ==
  \A r \in Requests :
    /\ \A k \in 1..Len(toolLog[r]) :
         /\ toolLog[r][k].outcome = "failed" =>
              /\ k = Len(toolLog[r])
              /\ pc[r] = "done"
              /\ ~Invoked(r, 2)
              /\ Len(responses[r]) = 1
              /\ responses[r][1].status = 503
              /\ DOMAIN responses[r][1].body = {"error"}
         /\ toolLog[r][k].outcome = "pending" =>
              k = Len(toolLog[r]) /\ InBridge(r)
         /\ (toolLog[r][k].outcome = "ok" /\ first[r] # None) =>
              /\ k <= Len(toolParts[r])
              /\ toolParts[r][k] = ToolResult(k)
    /\ InBridge(r) =>
         toolLog[r] # <<>> /\ LastOf(toolLog[r]).outcome = "pending"
    /\ first[r] # None =>
         Len(toolParts[r]) =
           Cardinality({k \in 1..Len(toolLog[r]) : toolLog[r][k].outcome = "ok"})

C8_Witness ==
  \E r \in Requests :
    /\ Len(toolLog[r]) = 2
    /\ toolLog[r][1].outcome = "ok"
    /\ toolLog[r][2].outcome = "failed"
    /\ caught[r] = MalformedMsg
    /\ pc[r] = "done"

\* ------------------------------------------------------------------------
\* C9
\* ------------------------------------------------------------------------
\* a step of the handler of request r
RequestStep(r) ==
  \/ \E body \in Bodies : Receive(r, body)
  \/ \E resp \in Responses : GenOk(r, resp)
  \/ \E err \in GenErrors : GenFail(r, err)
  \/ Wake(r)
  \/ ConnectOk(r) \/ ConnectFail(r)
  \/ \E res \in ToolReplies(Len(toolLog[r])) : CallToolOk(r, res)
  \/ CallToolFail(r)
  \/ CloseOk(r)

\* C9: once round 2 has returned a response, with function calls or not, the
\* turn is over: the reply is that response's text, nothing more can happen
\* in the turn, and no round beyond 2 was started
C9_Thm ==
  \A r \in Requests :
    /\ round[r] \in 0..2
    /\ HasRound2(r) =>
         /\ pc[r] = "done"
         /\ responses[r] = <<Ok200(ReplyFor(lastResp[r]))>>
         /\ ~ENABLED RequestStep(r)

C9_Witness ==
  \E r \in Requests :
    /\ HasRound2(r)
    /\ PriceCallsOf(lastResp[r]) # <<>>
    /\ Len(TextPartsOf(lastResp[r])) = 1
    /\ pc[r] = "done"
    /\ Len(toolLog[r]) = 1

\* ------------------------------------------------------------------------
\* C10
\* ------------------------------------------------------------------------
\* C10: when round 2 has been invoked, every get_el_price call of the
\* round-1 response has been made and has completed successfully, no
\* connection is open, and the tool turn of round 2 holds the results of
\* all of them
C10_Thm ==
  \A r \in Requests :
    (Invoked(r, 2) /\ first[r] # None) =>
      LET n == Len(PriceCallsOf(first[r])) IN
      /\ Len(toolLog[r]) = n
      /\ \A k \in 1..n : toolLog[r][k].outcome = "ok"
      /\ conns[r] = 0
      /\ sent[r][3] = [role |-> "tool", parts |-> [k \in 1..n |-> ToolResult(k)]]

C10_Witness ==
  \E r \in Requests :
    /\ Invoked(r, 2) /\ first[r] # None
    /\ Len(PriceCallsOf(first[r])) = 2
    /\ Len(trace[r]) = 1
    /\ Len(sent[r][3].parts) = 2

\* ------------------------------------------------------------------------
\* C11
\* ------------------------------------------------------------------------
\* C11: a tool-bridge invocation that is over has closed the connection it
\* opened, so that no request has a connection open outside the bridge, and
\* none when its handler is done
C11_Claim ==
  \A r \in Requests :
    /\ ~InBridge(r) => conns[r] = 0
    /\ pc[r] = "done" => conns[r] = 0

\* ------------------------------------------------------------------------
\* C12
\* ------------------------------------------------------------------------
\* the lines of the text parts of one candidate
CandLines(cand) == Lines(SelectSeq(cand.content.parts, IsText))

\* the lines of the first candidate of cs that has any; <<>> when none has
RECURSIVE FirstCandLines(_)
FirstCandLines(cs) ==
  IF cs = <<>> THEN <<>>
  ELSE IF CandLines(Head(cs)) # <<>> THEN CandLines(Head(cs))
  ELSE FirstCandLines(Tail(cs))

\* C12: the reply of a 200 response is the text of the first candidate of
\* the final response that has non-empty text, its text parts joined by
\* newlines; the text parts of later candidates are not in the reply
C12_Claim ==
  \A r \in Requests :
    (pc[r] = "done" /\ Len(responses[r]) = 1 /\ responses[r][1].status = 200
       /\ FirstCandLines(lastResp[r].candidates) # <<>>) =>
      responses[r][1].body.reply = FirstCandLines(lastResp[r].candidates)

\* ------------------------------------------------------------------------
\* C13
\* ------------------------------------------------------------------------
\* C13: every turn of a conversation that is sent to the model, in round 1
\* and in round 2, has at least one content part
C13_Claim ==
  \A r \in Requests :
    \A i \in 1..Len(sent[r]) : sent[r][i].parts # <<>>

\* ------------------------------------------------------------------------
\* C14
\* ------------------------------------------------------------------------
\* the response has no candidate, or no part with non-empty text
Textless(resp) ==
  \A i \in 1..Len(AllParts(resp.candidates)) :
    LET p == AllParts(resp.candidates)[i] IN IsText(p) => p.text = <<>>

\* C14: the reply of a 200 response is never the empty string, and it is
\* the placeholder "(inget svar)" when the final response has no candidate
\* or no part with non-empty text
C14_Thm ==
  \A r \in Requests :
    \A i \in 1..Len(responses[r]) :
      responses[r][i].status = 200 =>
        /\ responses[r][i].body.reply # <<>>
        /\ Textless(lastResp[r]) =>
             responses[r][i].body.reply =
               <<"(", "i", "n", "g", "e", "t", " ", "s", "v", "a", "r", ")">>

C14_Witness ==
  \E r \in Requests :
    /\ pc[r] = "done"
    /\ Len(TextPartsOf(lastResp[r])) = 1
    /\ TextPartsOf(lastResp[r])[1].text = <<>>
    /\ Len(responses[r]) = 1 /\ responses[r][1].status = 200
    /\ Len(responses[r][1].body.reply) = 12

\* ------------------------------------------------------------------------
\* C18
\* ------------------------------------------------------------------------
\* the error leaves generateWithRetry in this step: it reaches the catch of
\* the fallback when the model was the primary, and the catch of the handler,
\* which answers 503 with its message, when the model was the fallback
Raised(r, err, how) ==
  /\ pc'[r] # "sleeping"
  /\ EvCount(trace'[r], "sleep") <= EvCount(trace[r], "sleep")
  /\ IF modelName[r] = "gemini-1.5-flash"
       THEN /\ genLog'[r] =
                 << [genLog[r][1] EXCEPT !.outcome = how],
                    [round |-> round[r], model |-> "gemini-1.5-flash-8b",
                     outcome |-> "pending"] >>
            /\ modelName'[r] = "gemini-1.5-flash-8b"
            /\ trace'[r] = <<[ev |-> "call", ms |-> 0]>>
       ELSE /\ LastOf(genLog'[r]).outcome = how
            /\ pc'[r] = "done"
            /\ caught'[r] = err
            /\ responses'[r] = <<[status |-> 503, body |-> [error |-> err]]>>
            /\ trace'[r] = Append(trace[r], [ev |-> Failed(err), ms |-> 0])

C18_Step(r, err) ==
  LET n == EvCount(trace[r], "fail") IN
  IF Transient(err)
    THEN IF n < 4
      THEN \* a retriable failure of one of the first 4 attempts: sleep, go on
           /\ pc'[r] = "sleeping"
           /\ trace'[r] = trace[r] \o << [ev |-> "fail", ms |-> 0],
                                         [ev |-> "sleep", ms |-> Policy[n + 1]] >>
           /\ genLog'[r] = genLog[r] /\ modelName'[r] = modelName[r]
           /\ responses'[r] = responses[r]
      ELSE \* the 5th failure: 4 sleeps were made, none follows, err is raised
           /\ n = 4 /\ Len(trace[r]) = 13 /\ Cycle(trace[r], 4)
           /\ EvCount(trace[r], "sleep") = 4
           /\ Raised(r, err, "exhausted")
    ELSE \* a non-retriable failure: err is raised at once
         Raised(r, err, "fatal")

\* C18: in generateWithRetry a retriable failure of one of the first 4
\* attempts is followed by the sleep of 500, 1000, 2000, 4000 ms that is its
\* turn; the 5th retriable failure is followed by no sleep and raises its own
\* error; a non-retriable failure raises its error at once, with no sleep and
\* no further attempt against that model
C18_Thm ==
  [][\A r \in Requests : \A err \in GenErrors :
       GenFail(r, err) => C18_Step(r, err)]_vars

C18_Witness ==
  \E r \in Requests :
    /\ pc[r] = "done"
    /\ Len(genLog[r]) = 2 /\ genLog[r][2].outcome = "exhausted"
    /\ Len(trace[r]) = 14 /\ trace[r][14].ev = "fail"
    /\ trace[r][12] = [ev |-> "sleep", ms |-> 4000]
    /\ EvCount(trace[r], "sleep") = 4
    /\ caught[r] = ErrOverloaded
    /\ responses[r] = <<[status |-> 503, body |-> [error |-> ErrOverloaded]]>>

\* ------------------------------------------------------------------------
\* C19
\* ------------------------------------------------------------------------
\* C19: the tool bridge is invoked once for each get_el_price call of the
\* round-1 response, in the order of the calls in the response; a call
\* starts when all calls before it have completed, so that the request has
\* at most one connection open; and the results so far, as the tool turn of
\* round 2 when it is sent, are one functionResponse part for each executed
\* call, in that order
C19_Thm ==
  \A r \in Requests :
    /\ conns[r] <= 1
    /\ conns[r] = 1 /\ pc[r] # "done" => pc[r] \in {"awaitCallTool", "awaitClose"}
    /\ first[r] # None =>
         LET pcs == PriceCallsOf(first[r])
             m == Len(toolLog[r])
         IN /\ m <= Len(pcs)
            /\ \A k \in 1..m :
                 /\ toolLog[r][k].args = ArgsOf(pcs[k])
                 /\ k < m => toolLog[r][k].outcome = "ok"
            /\ Len(toolParts[r]) \in {m - 1, m}
            /\ \A k \in 1..Len(toolParts[r]) :
                 /\ toolParts[r][k].functionResponse.name = "get_el_price"
                 /\ toolParts[r][k].functionResponse.response = <<"prices", k>>
            /\ Invoked(r, 2) =>
                 /\ m = Len(pcs)
                 /\ sent[r][3].role = "tool"
                 /\ sent[r][3].parts = toolParts[r]
                 /\ Len(sent[r][3].parts) = m

C19_Witness ==
  \E r \in Requests :
    /\ first[r] # None /\ Invoked(r, 2)
    /\ Len(toolLog[r]) = 2
    /\ toolLog[r][1].args = [area |-> "SE1"]
    /\ toolLog[r][2].args = [area |-> "SE2"]
    /\ Len(sent[r][3].parts) = 2
    /\ sent[r][3].parts[2].functionResponse.response = <<"prices", 2>>

\* ------------------------------------------------------------------------
\* C20
\* ------------------------------------------------------------------------
\* C20: in a round-2 conversation every functionResponse part of the tool
\* turn has the name of a functionCall part of the model turn
C20_Claim ==
  \A r \in Requests :
    Len(sent[r]) = 3 =>
      \A i \in 1..Len(sent[r][3].parts) :
        \E j \in 1..Len(sent[r][2].parts) :
          /\ IsCall(sent[r][2].parts[j])
          /\ sent[r][2].parts[j].functionCall.name =
               sent[r][3].parts[i].functionResponse.name

\* ------------------------------------------------------------------------
\* C15
\* ------------------------------------------------------------------------
\* the calls of kind op of history h
OpCount(h, op) == Cardinality({i \in 1..Len(h) : h[i].call.op = op})

\* the generateContent calls and the sleeps request r has started
GenCalls(r) ==
  OpCount(hist[r], "generateContent") + (IF pc[r] = "awaitGen" THEN 1 ELSE 0)
Sleeps(r) ==
  OpCount(hist[r], "wait") + (IF pc[r] = "sleeping" THEN 1 ELSE 0)

\* every generateContent call of h failed with a retriable error
OnlyOverload(h) ==
  \A i \in 1..Len(h) :
    h[i].call.op = "generateContent" =>
      ~h[i].out.ok /\ Transient(h[i].out.error)

\* h ends with 5 failed calls against the fallback model, 4 sleeps between
EndsExhausted(h) ==
  /\ Len(h) >= 9
  /\ \A i \in 0..8 :
       LET e == h[Len(h) - i] IN
       IF i % 2 = 0
         THEN /\ e.call.op = "generateContent"
              /\ e.call.model = "gemini-1.5-flash-8b"
              /\ ~e.out.ok /\ Transient(e.out.error)
         ELSE e.call.op = "wait"

Budget(r) ==
  /\ GenCalls(r) <= 20
  /\ Sleeps(r) <= 16
  /\ pc[r] = "done" => Len(responses[r]) = 1
  /\ (pc[r] = "done" /\ OnlyOverload(hist[r])) =>
       /\ GenCalls(r) = 10 /\ Sleeps(r) = 8
       /\ responses[r][1].status = 503
  /\ (pc[r] = "done" /\ LastOf(genLog[r]).outcome = "exhausted") =>
       /\ EndsExhausted(hist[r])
       /\ responses[r][1].status = 503

\* C15: when every call to a collaborator returns, a request that has
\* arrived gets its response; a turn makes at most 20 generateContent calls
\* and 16 sleeps; a turn that meets retriable errors only ends, with a 503,
\* after 10 calls and 8 sleeps, and a turn that ends on a retriable error has
\* made all 5 attempts against the fallback model
C15_Thm ==
  /\ [](\A r \in {1} : Budget(r))
  /\ \A r \in {1} : (pc[r] # "idle") ~> (pc[r] = "done")

C15_Witness ==
  \E r \in Requests :
    /\ pc[r] = "done"
    /\ GenCalls(r) = 20 /\ Sleeps(r) = 16
    /\ responses[r][1].status = 503

\* ------------------------------------------------------------------------
\* C16
\* ------------------------------------------------------------------------
\* everything the state holds for request q
Local(q) ==
  << pc[q], userMessage[q], round[q], modelName[q], sent[q], attempt[q],
     first[q], calls[q], callIdx[q], toolParts[q], toolRes[q], conns[q],
     responses[q], genLog[q], trace[q], lastResp[q], toolLog[q], caught[q],
     hist[q] >>

\* a step is the step of one request and leaves the other requests alone
OneAtATime == \E r \in Requests : \A q \in Requests \ {r} : Local(q)' = Local(q)

\* the function calls of parts ps, as the handler collects them
CallsIn(ps) ==
  [k \in 1..Len(ps) |-> [name |-> ps[k].functionCall.name, args |-> ArgsOf(ps[k])]]

\* what holds of a request that runs alone: its attempt counter counts the
\* failed attempts of its own invocation, its calls are those of its own
\* round-1 response, its tool results are those of its own tool calls, and
\* its response is the one for its own last model response or its own error
Alone(r) ==
  /\ pc[r] = "awaitGen" => attempt[r] = EvCount(trace[r], "fail")
  /\ pc[r] = "sleeping" => attempt[r] = EvCount(trace[r], "fail") - 1
  /\ attempt[r] \in 0..4
  /\ first[r] # None => calls[r] = CallsIn(CallPartsOf(first[r]))
  /\ \A k \in 1..Len(toolParts[r]) : toolParts[r][k] = ToolResult(k)
  /\ pc[r] = "done" =>
       \/ caught[r] = <<>> /\ responses[r] = <<Ok200(ReplyFor(lastResp[r]))>>
       \/ /\ caught[r] # <<>>
          /\ responses[r] = <<[status |-> 503, body |-> [error |-> caught[r]]]>>

\* a request that sleeps in its backoff does not keep another one from its
\* next step
NotBlocked(r) ==
  \A q \in Requests \ {r} :
    (pc[r] = "sleeping" /\ pc[q] # "done") => ENABLED SmallStep(q, FALSE)

\* C16: with two requests interleaved at will, every step is the step of one
\* request and changes nothing of the other; each request's attempt counter,
\* collected calls, tool results and response are those of a request that
\* runs alone; a request in its backoff sleep does not block the other
C16_Thm ==
  /\ [](\A r \in Requests : Alone(r) /\ NotBlocked(r))
  /\ [][OneAtATime]_vars

C16_Witness ==
  /\ DOMAIN pc = {1, 2}
  /\ pc[1] = "sleeping" /\ attempt[1] = 3
  /\ pc[2] = "awaitGen" /\ round[2] = 2 /\ attempt[2] = 1
  /\ Len(toolParts[2]) = 1

\* ------------------------------------------------------------------------
\* C17
\* ------------------------------------------------------------------------
\* C17: of two turns served by the same deterministic collaborators, the
\* second makes the calls the first made, with the same arguments and in the
\* same order, gets the same outcomes, and, after as many calls, is in the
\* same state as the first, with the same response
C17_Thm ==
  LET k == Len(hist[2]) IN
  /\ k <= Len(hist[1])
  /\ hist[2] = SubSeq(hist[1], 1, k)
  /\ k < Len(hist[1]) => PendingCall(2) = hist[1][k + 1].call
  /\ k = Len(hist[1]) => Local(2) = Local(1)
  /\ pc[2] = "done" => pc[1] = "done" /\ responses[2] = responses[1]

C17_Witness ==
  /\ pc[1] = "done" /\ pc[2] = "done"
  /\ hist[2] = hist[1]
  /\ OpCount(hist[2], "callTool") = 1
  /\ OpCount(hist[2], "wait") = 3
  /\ responses[2] = responses[1]
  /\ responses[2][1].status = 200

\* ------------------------------------------------------------------------
\* C21
\* ------------------------------------------------------------------------
\* the last generateContent call of history h against model mdl; 0 when none
LastCallTo(h, mdl) ==
  LET S == {i \in 1..Len(h) :
              h[i].call.op = "generateContent" /\ h[i].call.model = mdl}
  IN IF S = {} THEN 0 ELSE CHOOSE i \in S : \A j \in S : j <= i

\* the round of request r failed on both models
BothFailed(r) ==
  /\ pc[r] = "done"
  /\ Len(genLog[r]) = 2
  /\ genLog[r][1].outcome \in {"exhausted", "fatal"}
  /\ genLog[r][2].outcome \in {"exhausted", "fatal"}

\* C21: when a round has failed on both models, the response is the 503
\* whose only field is the message of the error of the last call against the
\* fallback model, which is the last call of the turn; the error of the
\* primary model's last call is kept nowhere, and before the response there
\* is no error on record for the request
C21_Thm ==
  \A r \in Requests :
    /\ pc[r] # "done" => caught[r] = <<>> /\ responses[r] = <<>>
    /\ BothFailed(r) =>
         LET h == hist[r]
             p == LastCallTo(h, "gemini-1.5-flash")
             f == LastCallTo(h, "gemini-1.5-flash-8b")
         IN /\ 0 < p /\ p < f /\ f = Len(h)
            /\ ~h[p].out.ok /\ ~h[f].out.ok
            /\ h[p].call.contents = h[f].call.contents
            /\ responses[r] =
                 <<[status |-> 503, body |-> [error |-> h[f].out.error]]>>
            /\ caught[r] = h[f].out.error

C21_Witness ==
  \E r \in Requests :
    /\ BothFailed(r)
    /\ round[r] = 2
    /\ genLog[r][1].outcome = "exhausted"
    /\ hist[r][LastCallTo(hist[r], "gemini-1.5-flash")].out.error = Err503
    /\ responses[r] = <<[status |-> 503, body |-> [error |-> Err400]]>>

====
